---- MODULE Spec2Model ----
(***************************************************************************)
(* Model of src/app.py (KPI manager): the KPI result submission handler    *)
(* (mis_kpis POST), period closing (cerrar_periodo), KPI assignment to a   *)
(* position (puestos / asignar_kpis) and the inlined threshold classifier  *)
(* of the mis_kpis GET branch.                                             *)
(*                                                                         *)
(* SQL NULL / Python None is the empty tuple None, a present value x is    *)
(* the one-element tuple <<x>>.  Form strings that are parsed (valor) are  *)
(* tuples of one-character strings so that float() can be modelled by what *)
(* it does.  Numeric values are integers (the order is all the code uses). *)
(***************************************************************************)
EXTENDS Integers, Sequences, FiniteSets, TLC

\* ---------------------------------------------------------------- bounds
MaxBatch == 2        \* longest form list (kpi_id / valor / texto_resultado)
MaxRows == 2         \* rows kpi_resultados may hold
MaxPeriodo == 2      \* months the clock runs through
NumClients == 2      \* requests in flight at once (SpecRace)
MaxAsignar == 2      \* longest list of checked KPIs (SpecAsignar)
MaxValor == 2        \* largest value and range bound (SpecClassify)
MaxPuestos == 3      \* positions the table puestos may hold (SpecForest, SpecView)
MaxImport == 2       \* remote rows of one import (SpecImport)

\* zfill(5)
Width == 5

Empleados == {1, 2}
KpiIds == {1, 2}
Clients == 1..NumClients

None == <<>>
Some(x) == <<x>>

\* Form inputs: raw valor strings (as character tuples) and result texts.
RawValores == { <<>>, <<"x">>, <<"7">>, <<"-", "3">> }
Textos == { "ok" }

SeqsUpTo(S, n) == UNION { [1..k -> S] : k \in 0..n }

Min(a, b) == IF a <= b THEN a ELSE b

\* ------------------------------------------------------------- variables
VARIABLES
    kpis,            \* table kpis: id -> [es_criterio]
    kpi_resultados,  \* table kpi_resultados, rows in insertion order (id = index)
    today,           \* the month datetime.date.today() falls in
    req,             \* per client: the mis_kpis POST request in flight
    puesto_kpis,     \* table puesto_kpis, rows in insertion order
    asignacion,      \* the last asignar_kpis request and the table before it
    row,             \* classifier: the joined kpi/result row being coloured
    color,           \* classifier: the colour computed for row
    copy,            \* classifier: which inlined copy computed color
    puestos,         \* table puestos, rows in the order the store returns them
    empleados,       \* table empleados, rows in the order the store returns them
    departamentos,   \* table departamentos (names; id = index)
    nodes,           \* organigrama_data: puesto id -> children of its node
    forest,          \* organigrama_data: the root nodes returned
    view,            \* mis_kpis GET: what the last request rendered
    ultimo           \* the last move / import request and the tables before it

asigVars == <<puesto_kpis, asignacion>>
clasVars == <<row, color, copy>>
orgVars == <<puestos, empleados, departamentos, nodes, forest, view, ultimo>>
vars == <<kpis, kpi_resultados, today, req, asigVars, clasVars, orgVars>>

\* ------------------------------------------------ DB_CONFIG, current_period
autocommit == TRUE

\* current_period(): first day of the current month; a month is its number.
current_period == today

\* conn.close() without commit: the server keeps what autocommit committed
\* and discards an open transaction.
CloseConn(table, before) == IF autocommit THEN table ELSE before

\* ------------------------------------------------------------- float(valor)
Digits == {"0", "1", "2", "3", "4", "5", "6", "7", "8", "9"}
DigitVal(ch) ==
    CASE ch = "0" -> 0 [] ch = "1" -> 1 [] ch = "2" -> 2 [] ch = "3" -> 3
      [] ch = "4" -> 4 [] ch = "5" -> 5 [] ch = "6" -> 6 [] ch = "7" -> 7
      [] ch = "8" -> 8 [] ch = "9" -> 9

RECURSIVE DigitsVal(_)
DigitsVal(s) ==
    IF s = <<>> THEN 0
    ELSE 10 * DigitsVal(SubSeq(s, 1, Len(s) - 1)) + DigitVal(s[Len(s)])

AllDigits(s) == Len(s) > 0 /\ \A j \in 1..Len(s) : s[j] \in Digits

\* float(s) on strings over digits, sign and letters: None stands for the
\* ValueError, Some(n) for the number.
Float(s) ==
    IF AllDigits(s) THEN Some(DigitsVal(s))
    ELSE IF Len(s) > 1 /\ s[1] \in {"-", "+"} /\ AllDigits(Tail(s))
         THEN Some(IF s[1] = "-" THEN 0 - DigitsVal(Tail(s)) ELSE DigitsVal(Tail(s)))
         ELSE None

\* ------------------------------------------------------ mis_kpis (POST)
\* zip(kpi_ids, values, textos): triples up to the shortest list.
Zip3(kpi_ids, values, textos) ==
    [j \in 1..Min(Len(kpi_ids), Min(Len(values), Len(textos))) |->
        [kpi_id |-> kpi_ids[j], valor |-> values[j], texto |-> textos[j]]]

\* target_empleado_id: the form field, or the session's employee when the
\* field is missing or empty.
TargetEmpleado(form_target, empleado_id) ==
    IF form_target = None THEN empleado_id ELSE form_target[1]

\* SELECT es_criterio FROM kpis WHERE id=kpi_id; row["es_criterio"] if row else False
EsCriterio(kpi_id) ==
    IF kpi_id \in DOMAIN kpis THEN kpis[kpi_id].es_criterio ELSE FALSE

\* valor_db, texto_db of one triple; raised is a ValueError that escapes.
\* Faulty variant: no except clause around float().
NoCatchValorTexto(es_criterio, valor, texto) ==
    IF es_criterio
    THEN [raised |-> FALSE, valor_db |-> None, texto_db |-> Some(texto)]
    ELSE [raised |-> valor # <<>> /\ Float(valor) = None,
          valor_db |-> IF valor # <<>> THEN Float(valor) ELSE None,
          texto_db |-> None]

ValorTexto(es_criterio, valor, texto) ==
    IF es_criterio
    THEN [raised |-> FALSE, valor_db |-> None, texto_db |-> Some(texto)]
    ELSE [raised |-> FALSE,
          valor_db |-> IF valor # <<>> THEN Float(valor) ELSE None,
          texto_db |-> None]

\* SELECT id FROM kpi_resultados WHERE empleado_id=.. AND kpi_id=.. AND periodo=..
MatchingIds(table, empleado_id, kpi_id, periodo) ==
    { id \in 1..Len(table) :
        /\ table[id].empleado_id = empleado_id
        /\ table[id].kpi_id = kpi_id
        /\ table[id].periodo = periodo }

\* UPDATE kpi_resultados SET valor=.., texto_resultado=.. WHERE id=..
\* Faulty variant: the row is reopened.
ReopenUpdateResultado(table, id, valor_db, texto_db) ==
    [table EXCEPT ![id].valor = valor_db, ![id].texto_resultado = texto_db,
                  ![id].cerrado = FALSE, ![id].cerrado_por = None]

\* Faulty variant: only the non-null field is written.
KeepOldFieldsUpdateResultado(table, id, valor_db, texto_db) ==
    [table EXCEPT ![id].valor = IF valor_db = None THEN @ ELSE valor_db,
                  ![id].texto_resultado = IF texto_db = None THEN @ ELSE texto_db]

UpdateResultado(table, id, valor_db, texto_db) ==
    [table EXCEPT ![id].valor = valor_db, ![id].texto_resultado = texto_db]

\* INSERT INTO kpi_resultados (empleado_id, kpi_id, periodo, valor, texto_resultado)
\* cerrado and cerrado_por take the column defaults (open, nobody).
InsertResultado(table, empleado_id, kpi_id, periodo, valor_db, texto_db) ==
    Append(table, [empleado_id |-> empleado_id, kpi_id |-> kpi_id,
                   periodo |-> periodo, valor |-> valor_db,
                   texto_resultado |-> texto_db,
                   cerrado |-> FALSE, cerrado_por |-> None])

\* if existing: UPDATE ... else: INSERT ...
\* Faulty variant: the existing row is ignored.
AlwaysInsertWriteResultado(table, existing, empleado_id, kpi_id, periodo, valor_db, texto_db) ==
    InsertResultado(table, empleado_id, kpi_id, periodo, valor_db, texto_db)

WriteResultado(table, existing, empleado_id, kpi_id, periodo, valor_db, texto_db) ==
    IF existing # None
    THEN UpdateResultado(table, existing[1], valor_db, texto_db)
    ELSE InsertResultado(table, empleado_id, kpi_id, periodo, valor_db, texto_db)

IdleReq ==
    [pc |-> "idle", target |-> 0, periodo |-> 0, batch |-> <<>>, i |-> 0,
     valor_db |-> None, texto_db |-> None, existing |-> None,
     before |-> <<>>, inserts |-> 0, written |-> 0, error |-> "none"]

\* Request entry: session employee, form fields, period = current_period().
\* before/inserts/written/error are bookkeeping of what the request has done:
\* the table when it began, the INSERTs it ran, the id of the row it wrote
\* last, and the exception that ended it.
MisKpisPost(c, empleado_id, form_target, kpi_ids, values, textos) ==
    /\ req[c].pc = "idle"
    /\ LET batch == Zip3(kpi_ids, values, textos) IN
       req' = [req EXCEPT ![c] =
                 [IdleReq EXCEPT
                    !.pc = IF batch = <<>> THEN "done" ELSE "select",
                    !.target = TargetEmpleado(form_target, empleado_id),
                    !.periodo = current_period,
                    !.batch = batch,
                    !.i = 1,
                    !.before = kpi_resultados]]
    /\ UNCHANGED <<kpis, kpi_resultados, today, asigVars, clasVars, orgVars>>

\* Loop body up to "existing = cur.fetchone()".
SelectExisting(c) ==
    /\ req[c].pc = "select"
    /\ LET r == req[c]
           t == r.batch[r.i]
           vt == ValorTexto(EsCriterio(t.kpi_id), t.valor, t.texto)
           ids == MatchingIds(kpi_resultados, r.target, t.kpi_id, r.periodo)
       IN  IF vt.raised
           THEN req' = [req EXCEPT ![c].pc = "failed", ![c].error = "ValueError"]
           ELSE \E existing \in (IF ids = {} THEN {None} ELSE {Some(id) : id \in ids}) :
                  req' = [req EXCEPT ![c].pc = "write",
                                     ![c].valor_db = vt.valor_db,
                                     ![c].texto_db = vt.texto_db,
                                     ![c].existing = existing]
    /\ UNCHANGED <<kpis, kpi_resultados, today, asigVars, clasVars, orgVars>>

\* The UPDATE or INSERT of the loop body, then the next triple or the end.
WriteStep(c) ==
    /\ req[c].pc = "write"
    /\ LET r == req[c]
           t == r.batch[r.i]
           table == WriteResultado(kpi_resultados, r.existing, r.target, t.kpi_id,
                                   r.periodo, r.valor_db, r.texto_db)
       IN  /\ Len(table) <= MaxRows
           /\ kpi_resultados' = IF r.i = Len(r.batch) THEN CloseConn(table, r.before)
                                ELSE table
           /\ req' = [req EXCEPT
                        ![c].pc = IF r.i = Len(r.batch) THEN "done" ELSE "select",
                        ![c].i = r.i + 1,
                        ![c].inserts = r.inserts + (Len(table) - Len(kpi_resultados)),
                        ![c].written = IF r.existing # None THEN r.existing[1]
                                       ELSE Len(table)]
    /\ UNCHANGED <<kpis, today, asigVars, clasVars, orgVars>>

\* A store failure (connection loss, constraint violation) at the statement
\* the request is about to run: the exception leaves through
\* "finally: conn.close()".
StoreFailure(c) ==
    /\ req[c].pc \in {"select", "write"}
    /\ req' = [req EXCEPT ![c].pc = "failed", ![c].error = "store"]
    /\ kpi_resultados' = CloseConn(kpi_resultados, req[c].before)
    /\ UNCHANGED <<kpis, today, asigVars, clasVars, orgVars>>

\* The response is sent (redirect, or the error page); the client may post again.
Respond(c) ==
    /\ req[c].pc \in {"done", "failed"}
    /\ req' = [req EXCEPT ![c] = IdleReq]
    /\ UNCHANGED <<kpis, kpi_resultados, today, asigVars, clasVars, orgVars>>

\* The whole POST handler run without interleaving: the loop over the
\* triples from triple i on (fetchone takes the first matching row).
RECURSIVE SubmitFrom(_, _, _, _, _)
SubmitFrom(table, target, periodo, batch, i) ==
    IF i > Len(batch) THEN table
    ELSE LET t == batch[i]
             vt == ValorTexto(EsCriterio(t.kpi_id), t.valor, t.texto)
             ids == MatchingIds(table, target, t.kpi_id, periodo)
             existing == IF ids = {} THEN None
                         ELSE Some(CHOOSE id \in ids : \A other \in ids : id <= other)
         IN  IF vt.raised THEN table
             ELSE SubmitFrom(WriteResultado(table, existing, target, t.kpi_id, periodo,
                                            vt.valor_db, vt.texto_db),
                             target, periodo, batch, i + 1)

mis_kpis_post(empleado_id, form_target, kpi_ids, values, textos) ==
    /\ LET table == SubmitFrom(kpi_resultados,
                               TargetEmpleado(form_target, empleado_id),
                               current_period, Zip3(kpi_ids, values, textos), 1)
       IN  /\ Len(table) <= MaxRows
           /\ kpi_resultados' = CloseConn(table, kpi_resultados)
    /\ UNCHANGED <<kpis, today, req, asigVars, clasVars, orgVars>>

\* ------------------------------------------------------------ cerrar_periodo
\* target_empleado_id = request.form.get("empleado_id") or empleado_id
CerrarTarget(form_empleado_id, empleado_id) ==
    IF form_empleado_id = None THEN empleado_id ELSE form_empleado_id

\* UPDATE kpi_resultados SET cerrado=1, cerrado_por=.. WHERE empleado_id=.. AND periodo=..
\* Faulty variant: the WHERE clause lacks the period.
AllPeriodosCerrarRows(table, empleado_id, target, periodo) ==
    [id \in 1..Len(table) |->
        IF target # None /\ table[id].empleado_id = target[1]
        THEN [table[id] EXCEPT !.cerrado = TRUE, !.cerrado_por = empleado_id]
        ELSE table[id]]

CerrarRows(table, empleado_id, target, periodo) ==
    [id \in 1..Len(table) |->
        IF target # None /\ table[id].empleado_id = target[1]
                         /\ table[id].periodo = periodo
        THEN [table[id] EXCEPT !.cerrado = TRUE, !.cerrado_por = empleado_id]
        ELSE table[id]]

\* The handler: one UPDATE on an autocommit connection.  empleado_id is the
\* session's employee (None for a user without one).
cerrar_periodo(empleado_id, form_empleado_id) ==
    /\ kpi_resultados' = CerrarRows(kpi_resultados, empleado_id,
                                    CerrarTarget(form_empleado_id, empleado_id),
                                    current_period)
    /\ UNCHANGED <<kpis, today, req, asigVars, clasVars, orgVars>>

\* ------------------------------------------------------------------ edit_kpi
\* UPDATE kpis SET ..., es_criterio=.. WHERE id=kpi_id (the other columns are
\* not read by the handlers modelled here).
edit_kpi(kpi_id, es_criterio) ==
    /\ kpis' = [kpis EXCEPT ![kpi_id].es_criterio = es_criterio]
    /\ UNCHANGED <<kpi_resultados, today, req, asigVars, clasVars, orgVars>>

\* The calendar moves on to the next month.
NextMonth ==
    /\ today < MaxPeriodo
    /\ today' = today + 1
    /\ UNCHANGED <<kpis, kpi_resultados, req, asigVars, clasVars, orgVars>>

\* ------------------------------------------------- puestos / asignar_kpis
Puestos == {1, 2}

\* DELETE FROM puesto_kpis WHERE puesto_id=..
\* Faulty variant: the old assignments are kept.
KeepOldDeleteAsignados(table, puesto_id) == table

DeleteAsignados(table, puesto_id) ==
    SelectSeq(table, LAMBDA a : a.puesto_id # puesto_id)

\* for kpi_id in kpi_ids: INSERT INTO puesto_kpis (puesto_id, kpi_id)
InsertAsignados(table, puesto_id, kpi_ids) ==
    table \o [j \in 1..Len(kpi_ids) |-> [puesto_id |-> puesto_id, kpi_id |-> kpi_ids[j]]]

NoAsignacion == [puesto_id |-> 0, kpi_ids |-> <<>>, antes |-> <<>>]

\* The handler run to completion; asignacion records the request and the
\* table it found.
asignar_kpis(puesto_id, kpi_ids) ==
    /\ puesto_kpis' = InsertAsignados(DeleteAsignados(puesto_kpis, puesto_id),
                                      puesto_id, kpi_ids)
    /\ asignacion' = [puesto_id |-> puesto_id, kpi_ids |-> kpi_ids,
                      antes |-> puesto_kpis]
    /\ UNCHANGED <<kpis, kpi_resultados, today, req, clasVars, orgVars>>

\* The checked boxes of the assignment form: KPI ids, none twice.
KpiLists ==
    { l \in SeqsUpTo(KpiIds, MaxAsignar) :
        \A a, b \in 1..Len(l) : l[a] = l[b] => a = b }

\* ------------------------------------- mis_kpis (GET): colour of a KPI row
Valores == 0..MaxValor
Nullable == {None} \cup {Some(v) : v \in Valores}

Rows ==
    [es_criterio : BOOLEAN, valor : Nullable,
     rango_verde_min : Nullable, rango_verde_max : Nullable,
     rango_amarillo_min : Nullable, rango_amarillo_max : Nullable,
     rango_rojo_min : Nullable, rango_rojo_max : Nullable]

\* r[min] is not None and r[max] is not None and r[min] <= val <= r[max]
\* Faulty variant: the ends are excluded.
ExclusiveInRango(min, max, val) ==
    min # None /\ max # None /\ min[1] < val /\ val < max[1]

InRango(min, max, val) ==
    min # None /\ max # None /\ min[1] <= val /\ val <= max[1]

\* The viewer's own KPIs.
\* Faulty variant: red is tested first.
RedFirstColorOwn(r) ==
    IF ~r.es_criterio /\ r.valor # None
    THEN LET val == r.valor[1] IN
         IF InRango(r.rango_rojo_min, r.rango_rojo_max, val) THEN Some("danger")
         ELSE IF InRango(r.rango_amarillo_min, r.rango_amarillo_max, val)
              THEN Some("warning")
         ELSE IF InRango(r.rango_verde_min, r.rango_verde_max, val)
              THEN Some("success")
         ELSE None
    ELSE None

ColorOwn(r) ==
    IF ~r.es_criterio /\ r.valor # None
    THEN LET val == r.valor[1] IN
         IF InRango(r.rango_verde_min, r.rango_verde_max, val) THEN Some("success")
         ELSE IF InRango(r.rango_amarillo_min, r.rango_amarillo_max, val)
              THEN Some("warning")
         ELSE IF InRango(r.rango_rojo_min, r.rango_rojo_max, val)
              THEN Some("danger")
         ELSE None
    ELSE None

\* The subordinates' KPIs.
\* Faulty variant: es_criterio is not tested.
CriterioColouredColorSub(r) ==
    IF r.valor # None
    THEN LET val == r.valor[1] IN
         IF InRango(r.rango_verde_min, r.rango_verde_max, val) THEN Some("success")
         ELSE IF InRango(r.rango_amarillo_min, r.rango_amarillo_max, val)
              THEN Some("warning")
         ELSE IF InRango(r.rango_rojo_min, r.rango_rojo_max, val)
              THEN Some("danger")
         ELSE None
    ELSE None

\* Faulty variant: the yellow range is skipped.
NoYellowColorSub(r) ==
    IF ~r.es_criterio /\ r.valor # None
    THEN LET val == r.valor[1] IN
         IF InRango(r.rango_verde_min, r.rango_verde_max, val) THEN Some("success")
         ELSE IF InRango(r.rango_rojo_min, r.rango_rojo_max, val)
              THEN Some("danger")
         ELSE None
    ELSE None

ColorSub(r) ==
    IF ~r.es_criterio /\ r.valor # None
    THEN LET val == r.valor[1] IN
         IF InRango(r.rango_verde_min, r.rango_verde_max, val) THEN Some("success")
         ELSE IF InRango(r.rango_amarillo_min, r.rango_amarillo_max, val)
              THEN Some("warning")
         ELSE IF InRango(r.rango_rojo_min, r.rango_rojo_max, val)
              THEN Some("danger")
         ELSE None
    ELSE None

\* row["color"] = color, in the loop over raw_kpis and over raw_sub_kpis.
ColourOwnRow ==
    /\ copy = "none"
    /\ color' = ColorOwn(row)
    /\ copy' = "own"
    /\ UNCHANGED <<kpis, kpi_resultados, today, req, asigVars, orgVars, row>>

ColourSubRow ==
    /\ copy = "none"
    /\ color' = ColorSub(row)
    /\ copy' = "sub"
    /\ UNCHANGED <<kpis, kpi_resultados, today, req, asigVars, orgVars, row>>

\* ------------------------------------------------------------ organisation
\* No org-chart request has run; the org tables are empty.
NoUltimo == [op |-> "none"]
NoView == [outcome |-> "none"]

OrgOutputsIdle ==
    /\ nodes = <<>>
    /\ forest = <<>>
    /\ view = NoView
    /\ ultimo = NoUltimo

OrgIdle ==
    /\ puestos = <<>>
    /\ empleados = <<>>
    /\ departamentos = <<>>
    /\ OrgOutputsIdle

\* -------------------------------------------------------- organigrama_data
\* A node is named by the table and the row id it stands for, as in the ids
\* f"puesto_{id}" and f"empleado_{id}".  Python keeps the nodes by reference:
\* nodes[id] is the children list of the one node of position id, and a child
\* position is a reference to that node.
PuestoNode(id) == <<"puesto", id>>
EmpleadoNode(id) == <<"empleado", id>>

PuestoIdsIn(ps) == { ps[j].id : j \in 1..Len(ps) }

\* nodes = {p["id"]: {..., "children": []} for p in puestos}
NewNodes(ps) == [id \in PuestoIdsIn(ps) |-> <<>>]

\* for emp in empleados: if puesto_id and puesto_id in nodes: append the leaf
\* Faulty variant: a position takes its first employee only.
RECURSIVE FirstOnlyAttachEmpleados(_, _, _)
FirstOnlyAttachEmpleados(nds, es, j) ==
    IF j > Len(es) THEN nds
    ELSE LET puesto_id == es[j].puesto_id
         IN  FirstOnlyAttachEmpleados(
                 IF puesto_id # None /\ puesto_id[1] \in DOMAIN nds /\ nds[puesto_id[1]] = <<>>
                 THEN [nds EXCEPT ![puesto_id[1]] = Append(@, EmpleadoNode(es[j].id))]
                 ELSE nds,
                 es, j + 1)

RECURSIVE AttachEmpleados(_, _, _)
AttachEmpleados(nds, es, j) ==
    IF j > Len(es) THEN nds
    ELSE LET puesto_id == es[j].puesto_id
         IN  AttachEmpleados(
                 IF puesto_id # None /\ puesto_id[1] \in DOMAIN nds
                 THEN [nds EXCEPT ![puesto_id[1]] = Append(@, EmpleadoNode(es[j].id))]
                 ELSE nds,
                 es, j + 1)

\* for p in puestos: if jefe and jefe in nodes: nodes[jefe]["children"].append(node)
\*                   else: forest.append(node)
\* Faulty variant: a child position is put among the roots as well.
RECURSIVE RootAndChildAttachPuestos(_, _, _)
RootAndChildAttachPuestos(acc, ps, j) ==
    IF j > Len(ps) THEN acc
    ELSE LET jefe == ps[j].jefe_puesto_id
         IN  RootAndChildAttachPuestos(
                 IF jefe # None /\ jefe[1] \in DOMAIN acc.nodes
                 THEN [nodes  |-> [acc.nodes EXCEPT ![jefe[1]] = Append(@, PuestoNode(ps[j].id))],
                       forest |-> Append(acc.forest, PuestoNode(ps[j].id))]
                 ELSE [acc EXCEPT !.forest = Append(@, PuestoNode(ps[j].id))],
                 ps, j + 1)

RECURSIVE AttachPuestos(_, _, _)
AttachPuestos(acc, ps, j) ==
    IF j > Len(ps) THEN acc
    ELSE LET jefe == ps[j].jefe_puesto_id
         IN  AttachPuestos(
                 IF jefe # None /\ jefe[1] \in DOMAIN acc.nodes
                 THEN [acc EXCEPT !.nodes[jefe[1]] = Append(@, PuestoNode(ps[j].id))]
                 ELSE [acc EXCEPT !.forest = Append(@, PuestoNode(ps[j].id))],
                 ps, j + 1)

\* The three loops in the order the handler runs them.
\* Faulty variant: the positions are attached before the employees.
PuestosFirstBuildForest(ps, es) ==
    LET acc == AttachPuestos([nodes |-> NewNodes(ps), forest |-> <<>>], ps, 1)
    IN  [nodes |-> AttachEmpleados(acc.nodes, es, 1), forest |-> acc.forest]

BuildForest(ps, es) ==
    AttachPuestos([nodes |-> AttachEmpleados(NewNodes(ps), es, 1), forest |-> <<>>], ps, 1)

\* GET /organigrama/data: reads both tables and returns the forest.
organigrama_data ==
    /\ LET built == BuildForest(puestos, empleados)
       IN  /\ nodes' = built.nodes
           /\ forest' = built.forest
    /\ UNCHANGED <<kpis, kpi_resultados, today, req, asigVars, clasVars,
                   puestos, empleados, departamentos, view, ultimo>>

\* -------------------------------------------------------- organigrama_move
\* if not emp_id or not new_puesto_id: 400
\* Faulty variant: puesto_id is not tested.
OnlyEmpMissingIds(emp_id, new_puesto_id) == emp_id = None

MissingIds(emp_id, new_puesto_id) == emp_id = None \/ new_puesto_id = None

\* UPDATE empleados SET puesto_id=%s WHERE id=%s; the parameters are the
\* JSON fields as received, and id = NULL matches no row.
\* Faulty variant: the WHERE clause is missing.
AllRowsMovePuesto(table, emp_id, new_puesto_id) ==
    [j \in 1..Len(table) |-> [table[j] EXCEPT !.puesto_id = new_puesto_id]]

MovePuesto(table, emp_id, new_puesto_id) ==
    [j \in 1..Len(table) |->
        IF Some(table[j].id) = emp_id
        THEN [table[j] EXCEPT !.puesto_id = new_puesto_id]
        ELSE table[j]]

\* SELECT jefe_puesto_id FROM puestos WHERE id=%s; None when no row matches
JefePuesto(ps, puesto_id) ==
    LET hits == { j \in 1..Len(ps) : Some(ps[j].id) = puesto_id }
    IN  IF hits = {} THEN None ELSE ps[CHOOSE j \in hits : TRUE].jefe_puesto_id

\* SELECT id FROM empleados WHERE puesto_id=%s LIMIT 1: the store returns
\* any one of the matching rows, or no row.
BossEmps(table, jefe_puesto_id) ==
    IF jefe_puesto_id = None THEN { None }
    ELSE LET ids == { table[j].id : j \in { m \in 1..Len(table) :
                                             table[m].puesto_id = jefe_puesto_id } }
         IN  IF ids = {} THEN { None } ELSE { Some(id) : id \in ids }

\* UPDATE empleados SET jefe_directo_id=%s WHERE id=%s
SetJefeDirecto(table, emp_id, jefe_emp_id) ==
    [j \in 1..Len(table) |->
        IF Some(table[j].id) = emp_id
        THEN [table[j] EXCEPT !.jefe_directo_id = jefe_emp_id]
        ELSE table[j]]

\* POST /organigrama/move with the JSON fields employee_id and puesto_id.
organigrama_move(emp_id, new_puesto_id) ==
    /\ IF MissingIds(emp_id, new_puesto_id)
       THEN /\ empleados' = empleados
            /\ ultimo' = [op |-> "move", emp_id |-> emp_id, puesto_id |-> new_puesto_id,
                          antes |-> empleados, status |-> 400]
       ELSE LET moved == MovePuesto(empleados, emp_id, new_puesto_id)
                jefe_puesto_id == JefePuesto(puestos, new_puesto_id)
            IN  \E jefe_emp_id \in BossEmps(moved, jefe_puesto_id) :
                   /\ empleados' = SetJefeDirecto(moved, emp_id, jefe_emp_id)
                   /\ ultimo' = [op |-> "move", emp_id |-> emp_id,
                                 puesto_id |-> new_puesto_id,
                                 antes |-> empleados, status |-> 200]
    /\ UNCHANGED <<kpis, kpi_resultados, today, req, asigVars, clasVars,
                   puestos, departamentos, nodes, forest, view>>

\* ------------------------------------------------- personal: normalize_emp_id
\* Strings are tuples of characters.  str.strip() drops the blanks at both
\* ends.
RECURSIVE LStrip(_)
LStrip(s) == IF s # <<>> /\ s[1] = " " THEN LStrip(Tail(s)) ELSE s

RECURSIVE RStrip(_)
RStrip(s) ==
    IF s # <<>> /\ s[Len(s)] = " " THEN RStrip(SubSeq(s, 1, Len(s) - 1)) ELSE s

Strip(s) == RStrip(LStrip(s))

\* "".join(ch for ch in s if ch.isdigit())
OnlyDigits(s) == SelectSeq(s, LAMBDA ch : ch \in Digits)

Zeros(n) == [j \in 1..n |-> "0"]

\* str.zfill(width): zeros go in front, after a leading sign; a string that
\* is already width long or longer is returned as it is.
\* Faulty variant: a longer string is cut to its last width characters.
TruncatingZfill(s, width) ==
    IF Len(s) >= width THEN SubSeq(s, Len(s) - width + 1, Len(s))
    ELSE Zeros(width - Len(s)) \o s

Zfill(s, width) ==
    IF Len(s) >= width THEN s
    ELSE IF s # <<>> /\ s[1] \in {"-", "+"}
         THEN << s[1] >> \o Zeros(width - Len(s)) \o Tail(s)
         ELSE Zeros(width - Len(s)) \o s

\* normalize_emp_id(value): value is None or Some(string)
normalize_emp_id(value) ==
    IF value = None THEN <<>>
    ELSE LET s == Strip(value[1])
             digits == OnlyDigits(s)
             base == IF digits # <<>> THEN digits ELSE s
         IN  Zfill(base, Width)

\* ------------------------------------------------------ personal: importar
\* cur.lastrowid of an AUTO_INCREMENT table
RECURSIVE MaxId(_)
MaxId(table) ==
    IF table = <<>> THEN 0
    ELSE LET m == MaxId(Tail(table))
         IN  IF table[1].id > m THEN table[1].id ELSE m

\* existing_ids = {normalize_emp_id(row["id_empleado"]) for row in ... if row.get("id_empleado")}
ExistingIds(table) ==
    { normalize_emp_id(table[j].id_empleado) :
        j \in { m \in 1..Len(table) :
                  table[m].id_empleado # None /\ table[m].id_empleado # Some(<<>>) } }

\* existing_ids.add(emp_id)
Seen(existing_ids, emp_id) == existing_ids \cup { emp_id }

\* SELECT id FROM <table> WHERE nombre=%s; fetchone()
IdByNombre(table, nombre) ==
    LET hits == { j \in 1..Len(table) : table[j].nombre = nombre }
    IN  IF hits = {} THEN None ELSE Some(table[CHOOSE j \in hits : TRUE].id)

\* Find or create department: the table and the id found or made.
FindOrCreateDepartamento(deps, dept_nombre) ==
    IF dept_nombre = None THEN [table |-> deps, id |-> None]
    ELSE LET drow == IdByNombre(deps, dept_nombre[1])
         IN  IF drow # None THEN [table |-> deps, id |-> drow]
             ELSE [table |-> Append(deps, [id |-> MaxId(deps) + 1, nombre |-> dept_nombre[1]]),
                   id    |-> Some(MaxId(deps) + 1)]

\* Find or create position
FindOrCreatePuesto(ps, puesto_nombre, departamento_id) ==
    IF puesto_nombre = None THEN [table |-> ps, id |-> None]
    ELSE LET prow == IdByNombre(ps, puesto_nombre[1])
         IN  IF prow # None THEN [table |-> ps, id |-> prow]
             ELSE [table |-> Append(ps, [id |-> MaxId(ps) + 1, nombre |-> puesto_nombre[1],
                                         departamento_id |-> departamento_id,
                                         jefe_puesto_id |-> None]),
                   id    |-> Some(MaxId(ps) + 1)]

\* for row in remote_rows: ... ; db holds the three tables and existing_ids
RECURSIVE ImportFrom(_, _, _)
ImportFrom(db, remote_rows, j) ==
    IF j > Len(remote_rows) THEN db
    ELSE LET emp_id == normalize_emp_id(remote_rows[j].employee_number)
         IN  IF emp_id = <<>> \/ emp_id \in db.existing_ids
             THEN ImportFrom(db, remote_rows, j + 1)
             ELSE LET dep == FindOrCreateDepartamento(db.departamentos,
                                                      remote_rows[j].department_name)
                      pue == FindOrCreatePuesto(db.puestos, remote_rows[j].puesto, dep.id)
                  IN  ImportFrom(
                          [departamentos |-> dep.table,
                           puestos       |-> pue.table,
                           empleados     |-> Append(db.empleados,
                                                [id |-> MaxId(db.empleados) + 1,
                                                 id_empleado |-> Some(emp_id),
                                                 puesto_id |-> pue.id,
                                                 jefe_directo_id |-> None]),
                           existing_ids  |-> Seen(db.existing_ids, emp_id)],
                          remote_rows, j + 1)

\* POST /personal, action "importar", with the rows read from incidencias.
\* No remote row: nothing is written.
importar(remote_rows) ==
    /\ LET db == ImportFrom([departamentos |-> departamentos, puestos |-> puestos,
                             empleados |-> empleados,
                             existing_ids |-> ExistingIds(empleados)],
                            remote_rows, 1)
       IN  /\ departamentos' = db.departamentos
           /\ puestos' = db.puestos
           /\ empleados' = db.empleados
    /\ ultimo' = [op |-> "importar", remote_rows |-> remote_rows, antes |-> empleados]
    /\ UNCHANGED <<kpis, kpi_resultados, today, req, asigVars, clasVars,
                   nodes, forest, view>>

\* ------------------------------------------------------------ mis_kpis (GET)
\* SELECT e.id, p.id AS puesto_id FROM empleados e LEFT JOIN puestos p
\* ON e.puesto_id=p.id WHERE e.id=..; fetchone().  puesto_id is the id of the
\* joined position: NULL when the employee has none or names one that is
\* not stored.
FetchEmpleado(empleado_id) ==
    LET hits == { j \in 1..Len(empleados) : empleados[j].id = empleado_id }
    IN  IF hits = {} THEN None
        ELSE LET e == empleados[CHOOSE j \in hits : TRUE]
             IN  Some([id |-> e.id,
                       puesto_id |-> IF e.puesto_id # None /\
                                        e.puesto_id[1] \in PuestoIdsIn(puestos)
                                     THEN e.puesto_id ELSE None])

\* if not emp or not emp["puesto_id"]
\* Faulty variant: the position is not tested.
EmpOnlyNoPuesto(emp) == emp = None

NoPuesto(emp) == emp = None \/ emp[1].puesto_id = None

\* LEFT JOIN kpi_resultados kr ON kr.kpi_id = k.id AND kr.empleado_id = ..
\* AND kr.periodo = ..: the matching result rows, or one row of NULLs.
ResultadosDe(kpi_id, empleado_id, periodo) ==
    LET hits == SelectSeq(kpi_resultados,
                          LAMBDA r : r.kpi_id = kpi_id /\ r.empleado_id = empleado_id
                                     /\ r.periodo = periodo)
    IN  IF hits = <<>> THEN << [valor |-> None, texto_resultado |-> None] >>
        ELSE [j \in 1..Len(hits) |->
                [valor |-> hits[j].valor, texto_resultado |-> hits[j].texto_resultado]]

\* FROM puesto_kpis pk JOIN kpis k ON pk.kpi_id = k.id ... WHERE pk.puesto_id=..
\* for one KPI: a row per assignment and matching result.
RECURSIVE Repeat(_, _)
Repeat(s, n) == IF n = 0 THEN <<>> ELSE s \o Repeat(s, n - 1)

KpiRowsOf(kpi_id, empleado_id, periodo, puesto_id) ==
    IF kpi_id \notin DOMAIN kpis THEN <<>>
    ELSE LET res == ResultadosDe(kpi_id, empleado_id, periodo)
             one == [j \in 1..Len(res) |-> kpis[kpi_id] @@ res[j] @@ [id |-> kpi_id]]
             pks == SelectSeq(puesto_kpis,
                              LAMBDA a : Some(a.puesto_id) = puesto_id /\ a.kpi_id = kpi_id)
         IN  Repeat(one, Len(pks))

\* ORDER BY k.descripcion: the description of KPI k sorts as k does.
RECURSIVE RawKpisFrom(_, _, _, _)
RawKpisFrom(kpi_id, empleado_id, periodo, puesto_id) ==
    IF \A k \in DOMAIN kpis : k < kpi_id THEN <<>>
    ELSE KpiRowsOf(kpi_id, empleado_id, periodo, puesto_id)
         \o RawKpisFrom(kpi_id + 1, empleado_id, periodo, puesto_id)

RawKpis(empleado_id, periodo, puesto_id) ==
    RawKpisFrom(1, empleado_id, periodo, puesto_id)

\* row["color"] = color; my_kpis.append(row)
MyKpis(raw_kpis) ==
    [j \in 1..Len(raw_kpis) |-> raw_kpis[j] @@ [color |-> ColorOwn(raw_kpis[j])]]
KpiListSub(raw_sub_kpis) ==
    [j \in 1..Len(raw_sub_kpis) |->
        raw_sub_kpis[j] @@ [color |-> ColorSub(raw_sub_kpis[j])]]

\* SELECT id FROM puestos WHERE jefe_puesto_id = ..; the parameter is
\* emp["puesto_id"] as fetched, and NULL equals nothing.
\* Faulty variant: the positions below at any depth.
TransitiveSubordinatePuestos(ps, puesto_id) ==
    LET RECURSIVE Below(_, _)
        Below(found, n) ==
            IF n = 0 THEN found
            ELSE Below(found \cup { ps[j].id : j \in { m \in 1..Len(ps) :
                          ps[m].jefe_puesto_id # None /\
                          (ps[m].jefe_puesto_id = puesto_id \/
                           ps[m].jefe_puesto_id[1] \in found) } }, n - 1)
    IN  Below({}, Len(ps))

SubordinatePuestos(ps, puesto_id) ==
    { ps[j].id : j \in { m \in 1..Len(ps) :
                            puesto_id # None /\ ps[m].jefe_puesto_id = puesto_id } }

\* SELECT e.id, p.id AS puesto_id FROM empleados e JOIN puestos p
\* ON e.puesto_id=p.id WHERE e.puesto_id IN (subordinate_puestos)
SubordinateEmps(es, ps, subordinate_puestos) ==
    SelectSeq(es, LAMBDA e : e.puesto_id # None
                             /\ e.puesto_id[1] \in subordinate_puestos
                             /\ e.puesto_id[1] \in PuestoIdsIn(ps))

\* subordinate_data.append({"empleado": sub, "kpis": kpi_list_sub})
SubordinateData(subordinate_emps, periodo) ==
    [j \in 1..Len(subordinate_emps) |->
        LET sub == subordinate_emps[j]
        IN  [empleado |-> [id |-> sub.id, puesto_id |-> sub.puesto_id],
             kpis |-> KpiListSub(RawKpis(sub.id, periodo, sub.puesto_id))]]

\* GET /mis_kpis of the session's employee.  view records what was rendered
\* and the statements sent to the store.
mis_kpis_get(empleado_id) ==
    /\ LET emp == FetchEmpleado(empleado_id)
       IN  IF NoPuesto(emp)
           THEN view' = [outcome |-> "mis_kpis_no_puesto.html", empleado_id |-> empleado_id,
                         my_kpis |-> None, subordinates |-> None,
                         queries |-> << "empleado" >>]
           ELSE LET puesto_id == emp[1].puesto_id
                    subordinate_puestos == SubordinatePuestos(puestos, puesto_id)
                    subordinate_emps ==
                        SubordinateEmps(empleados, puestos, subordinate_puestos)
                IN  view' = [outcome |-> "mis_kpis.html", empleado_id |-> empleado_id,
                             my_kpis |-> Some(MyKpis(RawKpis(empleado_id, current_period,
                                                             puesto_id))),
                             subordinates |->
                                 Some(SubordinateData(subordinate_emps, current_period)),
                             queries |-> << "empleado", "kpis", "subordinate_puestos" >>
                                 \o (IF subordinate_puestos = {} THEN <<>>
                                     ELSE << "subordinate_emps" >>
                                          \o [j \in 1..Len(subordinate_emps) |-> "sub_kpis"])]
    /\ UNCHANGED <<kpis, kpi_resultados, today, req, asigVars, clasVars,
                   puestos, empleados, departamentos, nodes, forest, ultimo>>

\* ------------------------------------------------------------ specifications
NoRow == [es_criterio |-> FALSE, valor |-> None,
          rango_verde_min |-> None, rango_verde_max |-> None,
          rango_amarillo_min |-> None, rango_amarillo_max |-> None,
          rango_rojo_min |-> None, rango_rojo_max |-> None]

Init ==
    /\ kpis = [k \in KpiIds |-> [es_criterio |-> (k = 2)]]
    /\ kpi_resultados = <<>>
    /\ today = 1
    /\ req = [c \in Clients |-> IdleReq]
    /\ puesto_kpis = <<>>
    /\ asignacion = NoAsignacion
    /\ row = NoRow
    /\ color = None
    /\ copy = "none"
    /\ OrgIdle

\* POST /mis_kpis with the session employee and the form fields drawn from
\* the given sets.
Submit(c, sessionEmpleados, formTargets, kpiIds, rawValores, textosSet) ==
    /\ req[c].pc = "idle"
    /\ \E empleado_id \in sessionEmpleados, form_target \in formTargets,
          kpi_ids \in SeqsUpTo(kpiIds, MaxBatch),
          values \in SeqsUpTo(rawValores, MaxBatch),
          textos \in SeqsUpTo(textosSet, MaxBatch) :
            MisKpisPost(c, empleado_id, form_target, kpi_ids, values, textos)

FormTargets == {None} \cup {Some(e) : e \in Empleados}
SessionEmpleados == {None} \cup {Some(e) : e \in Empleados}

Quiet == \A c \in Clients : req[c].pc = "idle"

\* Spec: employee 1 submits own results, one request at a time; a request
\* may fail between statements; KPIs are switched between criterio and
\* metric between requests.
Next ==
    \/ Submit(1, {1}, {None, Some(1)}, KpiIds, RawValores, Textos)
    \/ SelectExisting(1)
    \/ WriteStep(1)
    \/ StoreFailure(1)
    \/ Respond(1)
    \/ (Quiet /\ \E k \in KpiIds, b \in BOOLEAN : edit_kpi(k, b))

Spec == Init /\ [][Next]_vars

\* SpecCerrar: whole requests of both employees over several months:
\* submissions (for oneself or for the other) and period closings.
NextCerrar ==
    \/ \E empleado_id \in Empleados, form_target \in FormTargets, n \in 0..MaxBatch :
          \E kpi_ids \in [1..n -> KpiIds],
             values \in [1..n -> {<<"7">>}],
             textos \in [1..n -> Textos] :
               mis_kpis_post(empleado_id, form_target, kpi_ids, values, textos)
    \/ \E e \in SessionEmpleados, f \in FormTargets : cerrar_periodo(e, f)
    \/ NextMonth

SpecCerrar == Init /\ [][NextCerrar]_vars

\* SpecRace: two requests for employee 1 in flight at once, interleaved
\* statement by statement.
NextRace ==
    \E c \in Clients :
        \/ Submit(c, {1}, {None, Some(1)}, KpiIds, {<<"7">>}, Textos)
        \/ SelectExisting(c)
        \/ WriteStep(c)
        \/ Respond(c)

SpecRace == Init /\ [][NextRace]_vars

\* SpecAsignar: KPI sets are assigned to positions, one request at a time.
NextAsignar ==
    \E puesto_id \in Puestos, kpi_ids \in KpiLists : asignar_kpis(puesto_id, kpi_ids)

SpecAsignar == Init /\ [][NextAsignar]_vars

\* SpecClassify: every joined row within the bounds is coloured by either copy.
InitClassify ==
    /\ kpis = [k \in KpiIds |-> [es_criterio |-> (k = 2)]]
    /\ kpi_resultados = <<>>
    /\ today = 1
    /\ req = [c \in Clients |-> IdleReq]
    /\ puesto_kpis = <<>>
    /\ asignacion = NoAsignacion
    /\ row \in Rows
    /\ color = None
    /\ copy = "none"
    /\ OrgIdle

NextClassify == ColourOwnRow \/ ColourSubRow

SpecClassify == InitClassify /\ [][NextClassify]_vars

\* The organisation chart of any content of the two tables.  create_puesto
\* and edit_puesto store whatever boss id the form names, so every boss
\* relation over the stored positions occurs, cycles and self-bosses
\* included, and a boss id may name no stored position.  The employees are
\* without position or at position 1 or 2, stored or not.
Distinct(s) == \A i, j \in 1..Len(s) : i # j => s[i] # s[j]
Orders(S) == { s \in SeqsUpTo(S, Cardinality(S)) : Distinct(s) }
PuestoIds == 1..MaxPuestos
EmpleadoIds == {1, 2}
PuestoRefs == { None } \cup { Some(p) : p \in PuestoIds }

PuestoRow(id, jefe) ==
    [id |-> id, nombre |-> "P", departamento_id |-> None, jefe_puesto_id |-> jefe]
EmpleadoRow(id, puesto_id) ==
    [id |-> id, id_empleado |-> None, puesto_id |-> puesto_id, jefe_directo_id |-> None]

PuestosTables ==
    UNION { { [j \in 1..Len(o) |-> PuestoRow(o[j], b[j])] : b \in [1..Len(o) -> PuestoRefs] }
            : o \in Orders(PuestoIds) }
EmpleadosTables ==
    UNION { { [j \in 1..Len(o) |-> EmpleadoRow(o[j], b[j])] :
                b \in [1..Len(o) -> { None, Some(1), Some(2) }] }
            : o \in Orders(EmpleadoIds) }

OtherIdle ==
    /\ kpis = [k \in KpiIds |-> [es_criterio |-> (k = 2)]]
    /\ kpi_resultados = <<>>
    /\ today = 1
    /\ req = [c \in Clients |-> IdleReq]
    /\ puesto_kpis = <<>>
    /\ asignacion = NoAsignacion
    /\ row = NoRow
    /\ color = None
    /\ copy = "none"

InitForest ==
    /\ OtherIdle
    /\ puestos \in PuestosTables
    /\ empleados \in EmpleadosTables
    /\ departamentos = <<>>
    /\ OrgOutputsIdle

NextForest == organigrama_data

SpecForest == InitForest /\ [][NextForest]_vars

\* Employees are moved between two positions of any boss relation; the
\* request may name an employee or a position that does not exist (id 3).
MovePuestosTables ==
    { << PuestoRow(1, a), PuestoRow(2, b) >> : a, b \in { None, Some(1), Some(2) } }
MoveIds == { None, Some(1), Some(2), Some(3) }

InitMove ==
    /\ OtherIdle
    /\ puestos \in MovePuestosTables
    /\ empleados = << EmpleadoRow(1, None), EmpleadoRow(2, None) >>
    /\ departamentos = <<>>
    /\ OrgOutputsIdle

NextMove == \E emp_id \in MoveIds, new_puesto_id \in MoveIds :
                organigrama_move(emp_id, new_puesto_id)

SpecMove == InitMove /\ [][NextMove]_vars

\* One import per behaviour.  It runs on an empty table or on one that holds
\* an employee whose external id is absent, unpadded, or as an earlier
\* import stored it; the remote rows carry ids with blanks, letters, leading
\* zeros, more than Width digits, nothing but a blank, or no id at all.
EmployeeNumbers ==
    { None, Some(<<"7">>), Some(<<" ", "7">>), Some(<<"0", "0", "0", "0", "7">>),
      Some(<<"A">>), Some(<<" ">>), Some(<<"1", "2", "3", "4", "5", "6">>) }
RemoteRows ==
    [employee_number : EmployeeNumbers, puesto : { None, Some("P") },
     department_name : { None, Some("D") }]
ExistingEmpleados ==
    { <<>> } \cup
    { << [EmpleadoRow(1, None) EXCEPT !.id_empleado = x] >> :
         x \in { None, Some(<<"7">>), Some(<<"0", "0", "0", "0", "7">>),
                 Some(<<"0", "0", "0", "0", "A">>) } }

InitImport ==
    /\ OtherIdle
    /\ puestos = <<>>
    /\ empleados \in ExistingEmpleados
    /\ departamentos = <<>>
    /\ OrgOutputsIdle

NextImport ==
    /\ ultimo = NoUltimo
    /\ \E remote_rows \in SeqsUpTo(RemoteRows, MaxImport) : importar(remote_rows)

SpecImport == InitImport /\ [][NextImport]_vars

\* The KPI view of any employee, over every content of puestos and of
\* empleados (up to three) in id order; position 1 has KPI 1 and position 2 has both KPIs, and
\* employee 1 has a result for KPI 1.
InIdOrder(table) == \A i, j \in 1..Len(table) : i < j => table[i].id < table[j].id
KpiSinRango(es_criterio) ==
    [es_criterio |-> es_criterio,
     rango_verde_min |-> None, rango_verde_max |-> None,
     rango_amarillo_min |-> None, rango_amarillo_max |-> None,
     rango_rojo_min |-> None, rango_rojo_max |-> None]
ViewEmpleadoIds == {1, 2, 3}
ViewEmpleadosTables ==
    UNION { { [j \in 1..Len(o) |-> EmpleadoRow(o[j], b[j])] : b \in [1..Len(o) -> PuestoRefs] }
            : o \in { s \in Orders(ViewEmpleadoIds) : \A i, j \in 1..Len(s) : i < j => s[i] < s[j] } }

InitView ==
    /\ kpis = [k \in KpiIds |->
                 IF k = 1 THEN [KpiSinRango(FALSE) EXCEPT !.rango_verde_min = Some(5),
                                                          !.rango_verde_max = Some(9)]
                 ELSE KpiSinRango(TRUE)]
    /\ kpi_resultados = << [empleado_id |-> 1, kpi_id |-> 1, periodo |-> 1,
                            valor |-> Some(7), texto_resultado |-> None,
                            cerrado |-> FALSE, cerrado_por |-> None] >>
    /\ today = 1
    /\ req = [c \in Clients |-> IdleReq]
    /\ puesto_kpis = << [puesto_id |-> 1, kpi_id |-> 1], [puesto_id |-> 2, kpi_id |-> 1],
                        [puesto_id |-> 2, kpi_id |-> 2] >>
    /\ asignacion = NoAsignacion
    /\ row = NoRow
    /\ color = None
    /\ copy = "none"
    /\ puestos \in { t \in PuestosTables : InIdOrder(t) }
    /\ empleados \in ViewEmpleadosTables
    /\ departamentos = <<>>
    /\ OrgOutputsIdle

NextView == \E empleado_id \in ViewEmpleadoIds : mis_kpis_get(empleado_id)

SpecView == InitView /\ [][NextView]_vars

\* SpecCierre: employee 1 submits results statement by statement, numbers
\* or nothing for the metric KPI, while the period is closed and closed
\* again, by employee 1 or for employee 1 by employee 2, at any moment.
NextCierre ==
    \/ Submit(1, {1}, {None}, KpiIds, { <<>>, <<"7">> }, Textos)
    \/ SelectExisting(1)
    \/ WriteStep(1)
    \/ Respond(1)
    \/ \E e \in { Some(1), Some(2) }, f \in { None, Some(1) } : cerrar_periodo(e, f)

SpecCierre == Init /\ [][NextCierre]_vars

\* SpecRound: employee 1, at position 1, is sent one result for the metric
\* KPI per request by up to NumClients requests at once, statement by
\* statement, and opens the KPI view.  KPI 1 has a green, a yellow and a red range or none at
\* all; position 1 has KPI 1 or both KPIs.
KpiConRango ==
    [KpiSinRango(FALSE) EXCEPT !.rango_verde_min = Some(5), !.rango_verde_max = Some(9),
                               !.rango_amarillo_min = Some(0), !.rango_amarillo_max = Some(9),
                               !.rango_rojo_min = Some(-5), !.rango_rojo_max = Some(7)]

InitRound ==
    /\ kpis \in { [k \in KpiIds |-> IF k = 1 THEN m ELSE KpiSinRango(TRUE)] :
                    m \in { KpiSinRango(FALSE), KpiConRango } }
    /\ kpi_resultados = <<>>
    /\ today = 1
    /\ req = [c \in Clients |-> IdleReq]
    /\ puesto_kpis \in { << [puesto_id |-> 1, kpi_id |-> 1] >>,
                         << [puesto_id |-> 1, kpi_id |-> 2], [puesto_id |-> 1, kpi_id |-> 1] >> }
    /\ asignacion = NoAsignacion
    /\ row = NoRow
    /\ color = None
    /\ copy = "none"
    /\ puestos = << PuestoRow(1, None) >>
    /\ empleados = << EmpleadoRow(1, Some(1)) >>
    /\ departamentos = <<>>
    /\ OrgOutputsIdle

NextRound ==
    \/ \E c \in Clients :
          \/ \E valor \in { <<"7">>, <<"-", "3">> } :
                MisKpisPost(c, 1, None, <<1>>, <<valor>>, <<"ok">>)
          \/ SelectExisting(c)
          \/ WriteStep(c)
          \/ Respond(c)
    \/ mis_kpis_get(1)

SpecRound == InitRound /\ [][NextRound]_vars

\* ------------------------------------------------------------------ claims
KeyIds(table, empleado_id, kpi_id, periodo) ==
    { id \in 1..Len(table) :
        /\ table[id].empleado_id = empleado_id
        /\ table[id].kpi_id = kpi_id
        /\ table[id].periodo = periodo }

BatchKpis(batch) == { batch[j].kpi_id : j \in 1..Len(batch) }

\* The last triple of the batch that names kpi_id.
LastFor(batch, kpi_id) ==
    batch[CHOOSE j \in 1..Len(batch) :
            /\ batch[j].kpi_id = kpi_id
            /\ \A m \in (j + 1)..Len(batch) : batch[m].kpi_id # kpi_id]

\* C1: a submission that fails part-way leaves kpi_resultados as it was
\* before the request (no strict non-empty prefix of the batch stays applied).
C1_AllOrNothing ==
    \A c \in Clients :
        req[c].pc = "failed" => kpi_resultados = req[c].before

\* C2: kpi_resultados never holds two rows for one (employee, kpi, period),
\* whatever the interleaving of concurrent submissions.
C2_UniqueKey ==
    \A a, b \in 1..Len(kpi_resultados) :
        ( /\ kpi_resultados[a].empleado_id = kpi_resultados[b].empleado_id
          /\ kpi_resultados[a].kpi_id = kpi_resultados[b].kpi_id
          /\ kpi_resultados[a].periodo = kpi_resultados[b].periodo ) => a = b

\* C3: when submissions run one after the other, a finished submission leaves
\* exactly one row per submitted (employee, kpi, period); it inserted exactly
\* the keys that had no row when it began, so a repeat of a submission
\* updates and inserts nothing.
C3_SequentialIdempotence ==
    \A c \in Clients :
        req[c].pc = "done" =>
            LET r == req[c]
                missing == { k \in BatchKpis(r.batch) :
                               KeyIds(r.before, r.target, k, r.periodo) = {} }
            IN  /\ \A k \in BatchKpis(r.batch) :
                      Cardinality(KeyIds(kpi_resultados, r.target, k, r.periodo)) = 1
                /\ r.inserts = Cardinality(missing)
                /\ Len(kpi_resultados) = Len(r.before) + Cardinality(missing)

\* A second, identical run: every key already had its row, nothing was
\* inserted and the table is what the first run left.
C3_Witness ==
    \E c \in Clients :
        /\ req[c].pc = "done"
        /\ Len(req[c].batch) = MaxBatch
        /\ req[c].before # <<>>
        /\ req[c].inserts = 0
        /\ kpi_resultados = req[c].before

\* C7: a metric triple whose raw value float() rejects (or that is empty)
\* ends no request with a ValueError, is stored with a null valor, and at the
\* end of the request every triple of the batch has been applied: each
\* submitted key holds what its last triple asked for.
NotANumber(valor) == Float(valor) = None

C7_BadValueStoredNull ==
    \A c \in Clients :
        LET r == req[c] IN
        /\ r.error # "ValueError"
        /\ (r.pc \in {"select", "done"} /\ r.i > 1) =>
              LET t == r.batch[r.i - 1] IN
              (~EsCriterio(t.kpi_id) /\ NotANumber(t.valor)) =>
                  /\ r.written \in KeyIds(kpi_resultados, r.target, t.kpi_id, r.periodo)
                  /\ kpi_resultados[r.written].valor = None
        /\ r.pc = "done" =>
              \A k \in BatchKpis(r.batch) :
                \E id \in KeyIds(kpi_resultados, r.target, k, r.periodo) :
                  LET t == LastFor(r.batch, k) IN
                  IF EsCriterio(k)
                  THEN kpi_resultados[id].texto_resultado = Some(t.texto)
                  ELSE kpi_resultados[id].valor =
                         (IF NotANumber(t.valor) THEN None ELSE Float(t.valor))

\* A finished batch whose first triple was a malformed metric value and whose
\* second triple, for another KPI, stored its number.
C7_Witness ==
    \E c \in Clients :
        LET r == req[c] IN
        /\ r.pc = "done" /\ Len(r.batch) = 2
        /\ ~EsCriterio(r.batch[1].kpi_id) /\ r.batch[1].valor = <<"x">>
        /\ r.batch[2].kpi_id # r.batch[1].kpi_id
        /\ ~EsCriterio(r.batch[2].kpi_id) /\ r.batch[2].valor = <<"7">>
        /\ \E id \in 1..Len(kpi_resultados) :
              kpi_resultados[id].kpi_id = r.batch[2].kpi_id
              /\ kpi_resultados[id].valor = Some(7)

\* C8: the row a triple was written to (inserted or updated) holds the text
\* and a null valor for a criterio KPI, the parsed number (or null) and a
\* null text for a metric KPI.
C8_RowHoldsOneKind ==
    \A c \in Clients :
        LET r == req[c] IN
        (r.pc \in {"select", "done"} /\ r.i > 1) =>
            LET t == r.batch[r.i - 1]
                w == kpi_resultados[r.written]
            IN  /\ r.written \in KeyIds(kpi_resultados, r.target, t.kpi_id, r.periodo)
                /\ IF EsCriterio(t.kpi_id)
                   THEN w.texto_resultado = Some(t.texto) /\ w.valor = None
                   ELSE w.texto_resultado = None /\ w.valor = Float(t.valor)

\* The update branch on a row that held a number while the KPI was a metric:
\* the KPI is a criterio now, the row holds the text and no number.
C8_Witness ==
    \E c \in Clients :
        LET r == req[c] IN
        /\ r.pc \in {"select", "done"} /\ r.i > 1
        /\ r.existing # None
        /\ r.written <= Len(r.before)
        /\ r.before[r.written].valor # None
        /\ EsCriterio(r.batch[r.i - 1].kpi_id)
        /\ kpi_resultados[r.written].texto_resultado = Some("ok")

\* C9: closing (target, period) as closer marks every row of that employee
\* and period closed by closer, and changes no other field and no other row.
C9_CerrarFrame ==
    [][\A e \in SessionEmpleados, f \in FormTargets :
         cerrar_periodo(e, f) =>
           LET target == IF f = None THEN e ELSE f IN
           /\ Len(kpi_resultados') = Len(kpi_resultados)
           /\ \A id \in 1..Len(kpi_resultados) :
                LET old == kpi_resultados[id]
                    new == kpi_resultados'[id]
                IN  IF target # None /\ old.empleado_id = target[1]
                                     /\ old.periodo = today
                    THEN /\ new.cerrado /\ new.cerrado_por = e
                         /\ new.valor = old.valor
                         /\ new.texto_resultado = old.texto_resultado
                         /\ new.empleado_id = old.empleado_id
                         /\ new.kpi_id = old.kpi_id
                         /\ new.periodo = old.periodo
                    ELSE new = old]_vars

\* Employee 1's rows of month 2 are closed by employee 2, one of them holding
\* its number, while a row of month 1 is still open.
C9_Witness ==
    /\ \E id \in 1..Len(kpi_resultados) :
          /\ kpi_resultados[id].empleado_id = 1 /\ kpi_resultados[id].periodo = 2
          /\ kpi_resultados[id].cerrado /\ kpi_resultados[id].cerrado_por = Some(2)
          /\ kpi_resultados[id].valor = Some(7)
    /\ \E id \in 1..Len(kpi_resultados) :
          /\ kpi_resultados[id].periodo = 1 /\ ~kpi_resultados[id].cerrado

\* The range [lo, hi] is fully given and holds v, ends included.
Contains(lo, hi, v) == lo # None /\ hi # None /\ v \in lo[1]..hi[1]

InGreen == Contains(row.rango_verde_min, row.rango_verde_max, row.valor[1])
InYellow == Contains(row.rango_amarillo_min, row.rango_amarillo_max, row.valor[1])
InRed == Contains(row.rango_rojo_min, row.rango_rojo_max, row.valor[1])

Coloured == copy # "none"
Numeric == ~row.es_criterio /\ row.valor # None

\* C4: for a non-null value of a metric KPI the colour is that of the first of
\* green, yellow, red whose range holds the value, and none if none does.
C4_Priority ==
    (Coloured /\ Numeric) =>
        /\ InGreen => color = Some("success")
        /\ (~InGreen /\ InYellow) => color = Some("warning")
        /\ (~InGreen /\ ~InYellow /\ InRed) => color = Some("danger")
        /\ (~InGreen /\ ~InYellow /\ ~InRed) => color = None

\* A value inside all three ranges is green; the own-KPI copy computed it.
C4_Witness ==
    /\ copy = "own" /\ Numeric
    /\ InGreen /\ InYellow /\ InRed
    /\ row.rango_verde_min # row.rango_amarillo_min
    /\ color = Some("success")

\* C5: a criterio KPI, or a row with no value, gets no colour, in the own-KPI
\* copy and in the subordinate copy, whatever the ranges.
C5_NoColour ==
    (Coloured /\ (row.es_criterio \/ row.valor = None)) => color = None

\* A criterio row of a subordinate whose stored value lies in the green range.
C5_Witness ==
    /\ copy = "sub" /\ row.es_criterio /\ row.valor # None
    /\ InGreen
    /\ color = None

\* C6: a colour is given only by a range with both bounds that holds the
\* value, and a value on either end of such a range is inside it; a range
\* with one bound gives no colour.
C6_RangeMatch ==
    (Coloured /\ Numeric) =>
        /\ color = Some("success") => InGreen
        /\ color = Some("warning") => InYellow
        /\ color = Some("danger") => InRed
        /\ (InGreen \/ InYellow \/ InRed) => color # None

\* Green has only its min (at the value), yellow is the single point the
\* value sits on: the colour is yellow.
C6_Witness ==
    /\ Coloured /\ Numeric
    /\ row.rango_verde_min = row.valor /\ row.rango_verde_max = None
    /\ row.rango_amarillo_min = row.valor /\ row.rango_amarillo_max = row.valor
    /\ color = Some("warning")

AsignadosA(table, puesto_id) ==
    { table[j].kpi_id : j \in { m \in 1..Len(table) : table[m].puesto_id = puesto_id } }

\* C10: after asignar_kpis(p, S) the KPIs of position p are exactly S, and
\* every other position keeps its rows.
C10_FullReplace ==
    asignacion.puesto_id # 0 =>
        /\ AsignadosA(puesto_kpis, asignacion.puesto_id) =
              { asignacion.kpi_ids[j] : j \in 1..Len(asignacion.kpi_ids) }
        /\ \A q \in Puestos \ {asignacion.puesto_id} :
              SelectSeq(puesto_kpis, LAMBDA a : a.puesto_id = q) =
              SelectSeq(asignacion.antes, LAMBDA a : a.puesto_id = q)

\* Position 1 had both KPIs and was reassigned the empty set while position 2
\* keeps its KPI.
C10_Witness ==
    /\ asignacion.puesto_id = 1 /\ asignacion.kpi_ids = <<>>
    /\ AsignadosA(asignacion.antes, 1) = KpiIds
    /\ AsignadosA(puesto_kpis, 1) = {}
    /\ AsignadosA(puesto_kpis, 2) # {}

\* ------------------------------------------------------------ organigrama
\* The forest was built from the current tables.
Built == puestos # <<>> /\ DOMAIN nodes = PuestoIdsIn(puestos)

AllNodes ==
    { PuestoNode(p) : p \in PuestoIdsIn(puestos) } \cup
    { EmpleadoNode(empleados[j].id) : j \in 1..Len(empleados) }

\* The places a node is attached at: under a parent, or in the list of roots.
ParentSlots(n) ==
    { <<p, j>> \in (DOMAIN nodes) \X (1..(Len(puestos) + Len(empleados))) :
         j <= Len(nodes[p]) /\ nodes[p][j] = n }
RootSlots(n) == { j \in 1..Len(forest) : forest[j] = n }
Supplied(ref) == ref # None /\ ref[1] \in PuestoIdsIn(puestos)

\* C11: in the forest every position node sits in exactly one place, under
\* one parent or in the list of roots, never both and never twice; an
\* employee node sits under at most one parent and is never a root; every
\* position whose boss id is null or names no supplied position is a root.
C11_OneParentOrRoot ==
    Built =>
        /\ \A j \in 1..Len(puestos) :
              LET n == PuestoNode(puestos[j].id)
              IN  /\ Cardinality(ParentSlots(n)) + Cardinality(RootSlots(n)) = 1
                  /\ ~Supplied(puestos[j].jefe_puesto_id) => RootSlots(n) # {}
        /\ \A j \in 1..Len(empleados) :
              LET n == EmpleadoNode(empleados[j].id)
              IN  /\ Cardinality(ParentSlots(n)) <= 1
                  /\ RootSlots(n) = {}

\* Position 1 names a boss that is not supplied and is a root, position 2 is
\* its child, and an employee is a leaf of position 2.
C11_Witness ==
    /\ Built
    /\ PuestoIdsIn(puestos) = {1, 2}
    /\ \E j \in 1..Len(puestos) :
          puestos[j].id = 1 /\ puestos[j].jefe_puesto_id = Some(3)
    /\ forest = << PuestoNode(1) >>
    /\ \E j \in 1..Len(nodes[1]) : nodes[1][j] = PuestoNode(2)
    /\ \E j \in 1..Len(nodes[2]) : nodes[2][j] = EmpleadoNode(1)

\* ------------------------------------------------------- organigrama_move
Occupants(table, puesto_ref) ==
    { table[j].id : j \in { m \in 1..Len(table) : table[m].puesto_id = puesto_ref } }

\* The boss position of position p as the table puestos has it: None when p
\* is not stored or has no boss.
BossOf(p) ==
    IF \E j \in 1..Len(puestos) : puestos[j].id = p
    THEN (puestos[CHOOSE j \in 1..Len(puestos) : puestos[j].id = p]).jefe_puesto_id
    ELSE None

\* C12: after organigrama_move(e, p) with both ids present, e's position is
\* p; e's supervisor is an employee at p's boss position when p has a boss
\* position that somebody occupies, and null when p has no boss position,
\* does not exist, or nobody occupies the boss position; every other
\* employee keeps its position and its supervisor.
C12_MoveResult ==
    (ultimo.op = "move" /\ ultimo.emp_id # None /\ ultimo.puesto_id # None) =>
        /\ ultimo.status = 200
        /\ Len(empleados) = Len(ultimo.antes)
        /\ \A j \in 1..Len(empleados) :
              IF empleados[j].id = ultimo.emp_id[1]
              THEN /\ empleados[j].puesto_id = ultimo.puesto_id
                   /\ LET boss == BossOf(ultimo.puesto_id[1])
                      IN  IF boss # None /\ Occupants(empleados, boss) # {}
                          THEN /\ empleados[j].jefe_directo_id # None
                               /\ empleados[j].jefe_directo_id[1] \in Occupants(empleados, boss)
                          ELSE empleados[j].jefe_directo_id = None
              ELSE empleados[j] = ultimo.antes[j]

\* Employee 1 was moved to position 2, whose boss position 1 is held by
\* employee 2, and employee 2 became the supervisor; employee 2 had a
\* position and a supervisor of its own to lose.
C12_Witness ==
    /\ ultimo.op = "move" /\ ultimo.status = 200
    /\ ultimo.emp_id = Some(1) /\ ultimo.puesto_id = Some(2)
    /\ BossOf(2) = Some(1)
    /\ ultimo.antes[1].puesto_id # Some(2)
    /\ ultimo.antes[1].jefe_directo_id = None
    /\ empleados[1].jefe_directo_id = Some(2)
    /\ empleados[2].puesto_id = Some(1)
    /\ empleados[2].jefe_directo_id # None

\* C13: organigrama_move with employee_id or puesto_id missing answers with
\* the error status and writes nothing.
C13_MissingIdsNoWrite ==
    (ultimo.op = "move" /\ (ultimo.emp_id = None \/ ultimo.puesto_id = None)) =>
        /\ ultimo.status = 400
        /\ empleados = ultimo.antes

\* A request naming employee 1 but no position was refused while employee 1
\* held a position and had a supervisor.
C13_Witness ==
    /\ ultimo.op = "move" /\ ultimo.status = 400
    /\ ultimo.emp_id = Some(1) /\ ultimo.puesto_id = None
    /\ empleados[1].puesto_id # None
    /\ empleados[1].jefe_directo_id # None

\* ------------------------------------------------------ personal: importar
Imported == ultimo.op = "importar"

\* The rows of empleados the import created.  An employee the import created
\* stores its key; a stored employee has the key its external id normalizes
\* to, and an employee an earlier import created also has the key it stores.
Created == { j \in 1..Len(empleados) : j > Len(ultimo.antes) }
StoredKeys(e) ==
    IF e.id_empleado = None THEN {}
    ELSE { e.id_empleado[1], normalize_emp_id(e.id_empleado) }
RowKeys ==
    { normalize_emp_id(ultimo.remote_rows[j].employee_number) :
        j \in 1..Len(ultimo.remote_rows) }
KeysBefore == UNION { StoredKeys(ultimo.antes[j]) : j \in 1..Len(ultimo.antes) }

\* C14: the import leaves the stored employees as they were; it creates one
\* employee for each key of its rows that no stored employee has, and none
\* for a row without id or with the key of a stored employee or of an
\* earlier row, so no employee shares the key of an employee it created.
C14_ImportDedup ==
    Imported =>
        /\ SubSeq(empleados, 1, Len(ultimo.antes)) = ultimo.antes
        /\ { empleados[j].id_empleado[1] : j \in Created } = (RowKeys \ KeysBefore) \ { <<>> }
        /\ \A j \in Created : \A m \in 1..Len(empleados) :
              m # j => empleados[j].id_empleado[1] \notin StoredKeys(empleados[m])

KeyBase(raw) == IF OnlyDigits(raw) # <<>> THEN OnlyDigits(raw) ELSE Strip(raw)

PaddedFrom(key, base) ==
    /\ Len(key) = (IF Len(base) > Width THEN Len(base) ELSE Width)
    /\ SubSeq(key, Len(key) - Len(base) + 1, Len(key)) = base
    /\ \A m \in 1..(Len(key) - Len(base)) : key[m] = "0"

Viewed == view.outcome # "none"

\* The stored row of the employee the view was built for, if any.
ViewerRows == SelectSeq(empleados, LAMBDA e : e.id = view.empleado_id)
StoredPuesto(e) == e.puesto_id # None /\ e.puesto_id[1] \in PuestoIdsIn(puestos)

\* C16: the view of an employee that is not stored or has no position is the
\* no-position page: no own KPI list, no subordinate list, no statement
\* beyond the lookup of the employee; every view ends in one of the two
\* pages.
C16_NoPuestoView ==
    Viewed =>
        /\ view.outcome \in { "mis_kpis_no_puesto.html", "mis_kpis.html" }
        /\ (ViewerRows = <<>> \/ ViewerRows[1].puesto_id = None) =>
              /\ view.outcome = "mis_kpis_no_puesto.html"
              /\ view.my_kpis = None
              /\ view.subordinates = None
              /\ view.queries = << "empleado" >>

\* Employee 1 has no position and got the no-position page while employee 2
\* holds a position that has a boss.
C16_Witness ==
    /\ view.outcome = "mis_kpis_no_puesto.html"
    /\ view.empleado_id = 1
    /\ ViewerRows # <<>> /\ ViewerRows[1].puesto_id = None
    /\ \E j \in 1..Len(empleados) :
          /\ empleados[j].id = 2 /\ StoredPuesto(empleados[j])
          /\ BossOf(empleados[j].puesto_id[1]) # None

\* The boss position n levels above position q; None when the chain ends
\* before.
RECURSIVE BossN(_, _)
BossN(q, n) ==
    IF n = 0 THEN Some(q)
    ELSE LET b == BossN(q, n - 1)
         IN  IF b = None THEN None ELSE BossOf(b[1])

AcyclicBoss ==
    \A q \in PuestoIdsIn(puestos) : \A n \in 1..Len(puestos) : BossN(q, n) # Some(q)

Listed == { view.subordinates[1][j].empleado.id : j \in 1..Len(view.subordinates[1]) }
PuestoDe(id) ==
    (empleados[CHOOSE j \in 1..Len(empleados) : empleados[j].id = id]).puesto_id

\* C17: the subordinates listed for a viewer at position P are exactly the
\* employees whose position has boss position P, each once, whatever the
\* boss relation; an employee with no position is never listed; in a
\* hierarchy, where no position is above itself, nobody at P and nobody two
\* or more levels below P is listed.
C17_OneLevel ==
    view.outcome = "mis_kpis.html" =>
        LET P == ViewerRows[1].puesto_id[1]
        IN  /\ Listed = { empleados[j].id : j \in { m \in 1..Len(empleados) :
                             /\ StoredPuesto(empleados[m])
                             /\ BossOf(empleados[m].puesto_id[1]) = Some(P) } }
            /\ Cardinality(Listed) = Len(view.subordinates[1])
            /\ \A id \in Listed : PuestoDe(id) # None
            /\ AcyclicBoss =>
                  \A id \in Listed :
                      /\ PuestoDe(id) # Some(P)
                      /\ \A n \in 2..Len(puestos) : BossN(PuestoDe(id)[1], n) # Some(P)

\* Position 1 is the boss of position 2 and position 2 of position 3, with
\* employee n at position n: the viewer at position 1 is shown employee 2
\* only.
C17_Witness ==
    /\ view.outcome = "mis_kpis.html"
    /\ view.empleado_id = 1
    /\ PuestoIdsIn(puestos) = {1, 2, 3}
    /\ BossOf(1) = None /\ BossOf(2) = Some(1) /\ BossOf(3) = Some(2)
    /\ Len(empleados) = 3
    /\ \A id \in {1, 2, 3} : PuestoDe(id) = Some(id)
    /\ Listed = {2}

\* ------------------------------------------------ organigrama: order, cycles
Leaves(p) ==
    LET sel == SelectSeq(empleados, LAMBDA e : e.puesto_id = Some(p))
    IN  [j \in 1..Len(sel) |-> EmpleadoNode(sel[j].id)]
ChildNodes(p) ==
    LET sel == SelectSeq(puestos, LAMBDA r : r.jefe_puesto_id = Some(p))
    IN  [j \in 1..Len(sel) |-> PuestoNode(sel[j].id)]
RootNodes ==
    LET sel == SelectSeq(puestos, LAMBDA r : ~Supplied(r.jefe_puesto_id))
    IN  [j \in 1..Len(sel) |-> PuestoNode(sel[j].id)]

\* C18: the roots come in the order their positions were supplied; the
\* children of a position are its employees, in the order the employees were
\* supplied, followed by its child positions, in the order the positions
\* were supplied.
C18_SupplyOrder ==
    Built =>
        /\ forest = RootNodes
        /\ \A p \in PuestoIdsIn(puestos) : nodes[p] = Leaves(p) \o ChildNodes(p)

\* Positions supplied as 2, 1, 3 with 2 and 1 roots and 3 under 1; employees
\* supplied as 2, 1, both at position 1.
C18_Witness ==
    /\ Built
    /\ forest = << PuestoNode(2), PuestoNode(1) >>
    /\ nodes[1] = << EmpleadoNode(2), EmpleadoNode(1), PuestoNode(3) >>

\* The positions below position p in the built nodes, p included.
ChildPuestos(p) ==
    { nodes[p][j][2] : j \in { m \in 1..Len(nodes[p]) : nodes[p][m][1] = "puesto" } }
RECURSIVE Closure(_, _)
Closure(S, n) ==
    IF n = 0 THEN S
    ELSE Closure(S \cup UNION { ChildPuestos(q) : q \in S }, n - 1)
Reach(p) == Closure({p}, Len(puestos))
Below(p) == Closure(ChildPuestos(p), Len(puestos))
Roots == { forest[j][2] : j \in 1..Len(forest) }
RootsOver(q) == { r \in Roots : q \in Reach(r) }

\* The boss chain of position q never leaves the supplied positions: q is on
\* a boss cycle or below one.
Cyclic(q) ==
    \A n \in 1..Len(puestos) : BossN(q, n) # None /\ BossN(q, n)[1] \in PuestoIdsIn(puestos)

\* C19: a supplied position whose boss chain ends is reachable from exactly
\* one root, so under an acyclic boss relation every position is, and every
\* employee at a supplied position is one leaf of a reachable position; a
\* position on a boss cycle or below one is reachable from no root, and its
\* employees with it; what the roots reach is a tree: no position below
\* itself.
C19_Reachability ==
    Built =>
        /\ \A q \in PuestoIdsIn(puestos) :
              /\ ~Cyclic(q) => Cardinality(RootsOver(q)) = 1
              /\ Cyclic(q) => RootsOver(q) = {}
              /\ RootsOver(q) # {} => q \notin Below(q)
        /\ AcyclicBoss => \A q \in PuestoIdsIn(puestos) : Cardinality(RootsOver(q)) = 1
        /\ \A j \in 1..Len(empleados) :
              Supplied(empleados[j].puesto_id) =>
                 /\ Cardinality(ParentSlots(EmpleadoNode(empleados[j].id))) = 1
                 /\ \A s \in ParentSlots(EmpleadoNode(empleados[j].id)) :
                       /\ s[1] = empleados[j].puesto_id[1]
                       /\ RootsOver(s[1]) = {} <=> Cyclic(s[1])

\* Position 1 is a root with employee 1; position 2 is its own boss, with
\* employee 2, and position 3 is below it: the root reaches position 1 only.
C19_Witness ==
    /\ Built
    /\ PuestoIdsIn(puestos) = {1, 2, 3}
    /\ BossOf(1) = None /\ BossOf(2) = Some(2) /\ BossOf(3) = Some(2)
    /\ Roots = {1} /\ Reach(1) = {1}
    /\ \E j \in 1..Len(nodes[1]) : nodes[1][j] = EmpleadoNode(1)
    /\ \E j \in 1..Len(nodes[2]) : nodes[2][j] = EmpleadoNode(2)
    /\ 3 \in Below(2) /\ 2 \in Below(2)

\* ------------------------------------------------------------ closed flag
ClosedFields(r) == << r.cerrado, r.cerrado_por >>

\* C20: no step removes a row or turns the closed flag of a row from true to
\* false; the closed flag and closed-by of a row change in a cerrar_periodo
\* step only; the UPDATE of a submission leaves both as they are on every
\* row, and on a closed row it still writes the submitted value and text.
C20_ClosedMonotonic ==
    [][/\ Len(kpi_resultados') >= Len(kpi_resultados)
       /\ \A id \in 1..Len(kpi_resultados) :
             LET old == kpi_resultados[id]
                 new == kpi_resultados'[id]
             IN  /\ old.cerrado => new.cerrado
                 /\ ClosedFields(new) # ClosedFields(old) =>
                       \E e \in SessionEmpleados, f \in FormTargets : cerrar_periodo(e, f)
                 /\ (WriteStep(1) /\ req[1].existing = Some(id)) =>
                       /\ ClosedFields(new) = ClosedFields(old)
                       /\ new.valor = req[1].valor_db
                       /\ new.texto_resultado = req[1].texto_db]_vars

\* A row that was closed without a number when the request began now holds
\* the number the request submitted, and is still closed by the same closer.
C20_Witness ==
    LET r == req[1] IN
    /\ r.pc \in {"select", "done"} /\ r.written \in 1..Len(r.before)
    /\ r.before[r.written].cerrado
    /\ r.before[r.written].valor = None
    /\ kpi_resultados[r.written].valor = Some(7)
    /\ kpi_resultados[r.written].cerrado
    /\ kpi_resultados[r.written].cerrado_por = r.before[r.written].cerrado_por
    /\ r.before[r.written].cerrado_por = Some(2)

\* ---- C21: round trip from a stored result to the KPI view ----

\* v lies in the closed range min..max, and both ends are set.
Dentro(min, max, v) == min # None /\ max # None /\ min[1] <= v /\ v <= max[1]

\* Status of value v under the ranges of KPI k: green, then yellow, then red.
StatusDe(k, v) ==
    IF Dentro(kpis[k].rango_verde_min, kpis[k].rango_verde_max, v) THEN Some("success")
    ELSE IF Dentro(kpis[k].rango_amarillo_min, kpis[k].rango_amarillo_max, v) THEN Some("warning")
    ELSE IF Dentro(kpis[k].rango_rojo_min, kpis[k].rango_rojo_max, v) THEN Some("danger")
    ELSE None

\* KPIs assigned to the stored position of employee e.
AsignadosDe(e) ==
    { k \in KpiIds :
        \E i \in 1..Len(empleados), j \in 1..Len(puesto_kpis) :
            /\ empleados[i].id = e
            /\ empleados[i].puesto_id = Some(puesto_kpis[j].puesto_id)
            /\ puesto_kpis[j].kpi_id = k }

\* The rows of KPI k in a rendered own-KPI list.
ListedAs(list, k) == SelectSeq(list, LAMBDA r : r.id = k)

\* Request c has stored every result of its one-result form and no other
\* request is in flight.
JustStored(c) ==
    /\ req[c].pc = "done"
    /\ req[c].error = "none"
    /\ Len(req[c].batch) = 1
    /\ \A d \in Clients \ {c} : req[d].pc = "idle"

\* The view rendered for the target of request c shows each assigned KPI
\* once, the stored value with its status, and nothing for a missing row.
RoundTrip(c, v) ==
    LET e == req[c].target
        t == req[c].batch[1]
        list == v.my_kpis[1]
    IN  /\ v.outcome = "mis_kpis.html"
        /\ \A k \in AsignadosDe(e) :
              LET shown == ListedAs(list, k) IN
              /\ Len(shown) = 1
              /\ (k = t.kpi_id /\ ~kpis[k].es_criterio /\ Float(t.valor) # None)
                    => /\ shown[1].valor = Float(t.valor)
                       /\ shown[1].color = StatusDe(k, Float(t.valor)[1])
              /\ MatchingIds(kpi_resultados, e, k, current_period) = {}
                    => /\ shown[1].valor = None
                       /\ shown[1].color = None

\* C21: the view opened for employee e right after a request stored a
\* well-formed numeric value v for (e, metric KPI k, current period) lists
\* every KPI of e's position exactly once, k with value v and with the
\* status of v under k's ranges, and a KPI without a result row with a null
\* value and no status.
C21_RoundTrip ==
    [][ \A c \in Clients :
          (JustStored(c) /\ mis_kpis_get(req[c].target)) => RoundTrip(c, view') ]_vars

\* ---- C22: the two copies of the classifier agree ----

\* C22: for every value, criterio flag and triple of ranges, the colour the
\* own-KPI copy gives a row is the colour the subordinate copy gives it, so
\* the colour stored by either copy is the one the other would have stored.
C22_CopiesAgree ==
    /\ ColorOwn(row) = ColorSub(row)
    /\ copy = "own" => color = ColorSub(row)
    /\ copy = "sub" => color = ColorOwn(row)

\* The subordinate copy coloured a metric row yellow: its value lies outside
\* green and inside both yellow and red.
C22_Witness ==
    /\ copy = "sub" /\ Numeric
    /\ ~InGreen /\ InYellow /\ InRed
    /\ color = Some("warning")
    /\ ColorOwn(row) = Some("warning")

====
